---- MODULE Spec2Model ----
(***************************************************************************)
(* MultiAgentEnvRunner (rllib/env/multi_agent_env_runner.py): the two      *)
(* sampling drivers, the episode bookkeeping that feeds get_metrics, and   *)
(* the versioned state synchronisation.                                    *)
(*                                                                         *)
(* Every public call (sample, get_metrics, set_state, set_weights,         *)
(* make_env) is one action: the runner is single-threaded and a call runs  *)
(* to completion or to the exception that aborts it.  The loops of the     *)
(* drivers are RECURSIVE operators over a frame: a record holding the      *)
(* runner's fields and the locals of the running call.  SpecLoop follows   *)
(* the same loops one iteration per step, to see them end.                 *)
(*                                                                         *)
(* MultiAgentEpisode, the MetricsLogger, the environment, the RLModule and *)
(* the connector pipelines are not part of the source file.  The episode   *)
(* record and the logger are modelled from the specification; the          *)
(* environment is a deterministic stepper chosen at construction (episode  *)
(* length, acting pattern).                                                *)
(***************************************************************************)
EXTENDS Integers, Sequences, FiniteSets, TLC

VARIABLES
    config,                      \* self.config (fixed at construction)
    env,                         \* self.env: the environment's own state
    module,                      \* self.module: None or the RLModule's state
    weights_seq_no,              \* self._weights_seq_no
    connectors,                  \* state of self._env_to_module / self._module_to_env
    episode,                     \* self._episode
    needs_initial_reset,         \* self._needs_initial_reset
    cached_to_module,            \* self._cached_to_module
    done_episodes_for_metrics,   \* self._done_episodes_for_metrics
    ongoing_episodes_for_metrics,\* self._ongoing_episodes_for_metrics
    metrics,                     \* self.metrics: the sampled-steps counters
    whole,                       \* history: every live episode as if never cut
    done_since_pull,             \* history: episodes that became done since the last get_metrics
    last,                        \* history: the last call, its outcome, return value and events
    running                      \* the sample call in progress, when its loop is followed
                                 \* iteration by iteration: its frame, or None

vars == << config, env, module, weights_seq_no, connectors, episode,
           needs_initial_reset, cached_to_module, done_episodes_for_metrics,
           ongoing_episodes_for_metrics, metrics, whole,
           done_since_pull, last, running >>

---------------------------------------------------------------------------
(* Bounds of the model. *)

\* longest episode of the environment
MaxEpLen == 2
\* largest num_timesteps of a sample call
MaxTimesteps == 2
\* largest num_episodes of a sample call
MaxNumEpisodes == 2
\* cap of the lifetime env-step counter
MaxEnvSteps == 3
\* most chunks of one episode the registry may hold
MaxChunks == 2
\* largest incoming weights sequence number
MaxSeqNo == 2
\* largest n and m of the two calls compared with one call of n + m
MaxSplit == 1
\* most steps the environment takes in a call before its step raises
MaxFailAfter == 1
\* most environments a runner creates, the one of __init__ included
MaxEnvsMade == 2
\* the configured self.config.get_rollout_fragment_length(...)
rollout_fragment_length == 1
\* the configured self.config.episode_lookback_horizon
episode_lookback_horizon == 1

(* Program constants. *)

\* self.num_envs = 1 (make_env)
num_envs == 1

AgentIds == {"a1", "a2"}
\* key order of the dicts the environment returns
AgentOrder == << "a1", "a2" >>
ModuleIds == {"m1", "m2"}
Weights == {"w1", "w2"}
ConnectorStates == {"c1"}

None == [kind |-> "None"]
\* {}
EmptyDict == [k \in {} |-> 0]

---------------------------------------------------------------------------
(* Python values.  A list and a dict are told apart, so that x[0] means    *)
(* what it means in Python: the first element of a list, the value under   *)
(* key 0 of a dict.                                                        *)

PyList(x) == [kind |-> "list", items |-> << x >>]
PyDict(f) == [kind |-> "dict", map |-> f]

\* x[0]. The keys of every dict here are agent ids (strings), never 0.
PyIndex0(x) ==
    IF x.kind = "list" /\ Len(x.items) > 0
    THEN [ok |-> TRUE, val |-> x.items[1]]
    ELSE [ok |-> FALSE, val |-> None]

\* dict.get(k, 0) / a defaultdict read
Get0(f, k) == IF k \in DOMAIN f THEN f[k] ELSE 0

RECURSIVE SumOver(_, _)
SumOver(f, S) ==
    IF S = {} THEN 0
    ELSE LET k == CHOOSE k \in S : TRUE IN f[k] + SumOver(f, S \ {k})

SumValues(f) == SumOver(f, DOMAIN f)

Restrict(f, S) == [k \in S |-> f[k]]

\* the ids of a list of episodes
Ids(seq) == {seq[i].id_ : i \in 1..Len(seq)}

\* d[key] = x
Put(d, key, x) == [k \in (DOMAIN d) \cup {key} |-> IF k = key THEN x ELSE d[k]]

\* Python evaluates eagerly: `v` is computed once, then Op runs on its value
Bind(v, Op(_)) == CHOOSE y \in {Op(x) : x \in {v}} : TRUE

---------------------------------------------------------------------------
(* The environment (external): a deterministic stepper.  config.pattern    *)
(* says who observes at which step, config.ep_len when it reports          *)
(* __all__ done.  An agent is rewarded on every observation that follows   *)
(* an earlier observation of it.  `made` numbers the environment objects   *)
(* the runner has created, `reset` says whether this one was ever reset.   *)

ObsAt(cfg, t) ==
    IF cfg.pattern = "all" THEN AgentIds
    ELSE IF t % 2 = 0 THEN {"a1"} ELSE {"a2"}

SeenBy(cfg, t) == UNION {ObsAt(cfg, s) : s \in 0..t}

RewardOf(a) == IF a = "a1" THEN 1 ELSE 2

\* env.reset() -> obs
EnvReset(cfg, e) == [env |-> [e EXCEPT !.t = 0, !.reset = TRUE], obs |-> ObsAt(cfg, 0)]

\* env.step(actions) -> obs, rewards, terminateds/truncateds["__all__"]
EnvStep(cfg, e) ==
    [env     |-> [e EXCEPT !.t = @ + 1],
     obs     |-> ObsAt(cfg, e.t + 1),
     rewards |-> [a \in ObsAt(cfg, e.t + 1) \cap SeenBy(cfg, e.t) |-> RewardOf(a)],
     is_done |-> e.t + 1 >= cfg.ep_len]

\* env.action_space.sample() / env.action_space_sample(): one action per agent
ActionSpaceSample == [a \in AgentIds |-> [by |-> "random"]]

---------------------------------------------------------------------------
(* MultiAgentEpisode (modelled from the specification, section 3 and 4.1). *)
(* agent_episodes maps each agent that has observed to its sub-record:     *)
(* len and ret count the steps and the reward of this chunk.               *)

MultiAgentEpisode(id, cfg) ==
    [kind |-> "episode", id_ |-> id, env_t_started |-> 0, env_t |-> 0,
     is_done |-> FALSE, is_finalized |-> FALSE, seeded |-> FALSE,
     agents_to_act |-> {}, agent_episodes |-> EmptyDict,
     steps |-> << >>, lookback |-> << >>,
     mapping |-> cfg.mapping]

\* len(episode)
EpLen(e) == e.env_t - e.env_t_started

\* episode.get_return()
GetReturn(e) == SumValues([a \in DOMAIN e.agent_episodes |-> e.agent_episodes[a].ret])

NewAgentEpisode(e, a) == [agent_id |-> a, module_id |-> e.mapping[a], len |-> 0, ret |-> 0]

\* episode.add_env_reset(observations, infos)
AddEnvReset(e, obs) ==
    [e EXCEPT !.seeded = TRUE,
              !.agents_to_act = obs,
              !.agent_episodes = [a \in obs |-> NewAgentEpisode(e, a)]]

\* episode.add_env_step(obs, actions, rewards, terminateds, truncateds, extra_model_outputs)
AddEnvStep(e, out, actions, extra_model_outputs) ==
    [e EXCEPT
       !.env_t = @ + 1,
       !.is_done = out.is_done,
       !.agents_to_act = IF out.is_done THEN {} ELSE out.obs,
       !.agent_episodes =
           [a \in (DOMAIN e.agent_episodes) \cup out.obs |->
               IF a \notin DOMAIN e.agent_episodes THEN NewAgentEpisode(e, a)
               ELSE IF a \in out.obs
               THEN [e.agent_episodes[a] EXCEPT !.len = @ + 1,
                                                !.ret = @ + Get0(out.rewards, a)]
               ELSE e.agent_episodes[a]],
       !.steps = Append(@, [t |-> e.env_t + 1, obs |-> out.obs, actions |-> actions,
                            rewards |-> out.rewards,
                            extra_model_outputs |-> extra_model_outputs])]

LastN(s, n) == IF Len(s) <= n THEN s ELSE SubSeq(s, Len(s) - n + 1, Len(s))

\* episode.cut(len_lookback_buffer): the continuation
Cut(e, len_lookback_buffer) ==
    [e EXCEPT
       !.env_t_started = e.env_t,
       !.is_finalized = FALSE,
       !.agent_episodes = [a \in DOMAIN e.agent_episodes |->
                              [e.agent_episodes[a] EXCEPT !.len = 0, !.ret = 0]],
       !.steps = << >>,
       !.lookback = LastN(e.lookback \o [i \in 1..Len(e.steps) |-> e.steps[i].t],
                          len_lookback_buffer)]

\* episode.finalize(drop_zero_len_single_agent_episodes)
Finalize(e, drop_zero_len) ==
    [e EXCEPT
       !.is_finalized = TRUE,
       !.agent_episodes =
           IF drop_zero_len
           THEN Restrict(@, {a \in DOMAIN @ : @[a].len > 0})
           ELSE @]

\* episode.get_agents_to_act()
GetAgentsToAct(e) == e.agents_to_act

\* episode.module_for(agent_id)
ModuleFor(e, a) == e.mapping[a]

---------------------------------------------------------------------------
(* The frame of a running call: the runner's fields, then the locals.      *)

Frame ==
    [config |-> config, env |-> env, module |-> module, episode |-> episode,
     needs_initial_reset |-> needs_initial_reset,
     cached_to_module |-> cached_to_module,
     done_episodes_for_metrics |-> done_episodes_for_metrics,
     ongoing_episodes_for_metrics |-> ongoing_episodes_for_metrics,
     metrics |-> metrics,
     whole |-> whole, done_since_pull |-> done_since_pull,
     \* locals
     local_episode |-> None,          \* _episode of _sample_episodes
     done_episodes_to_return |-> << >>,
     ts |-> 0, eps |-> 0,
     to_env |-> EmptyDict,
     \* the environment's behaviour during the call: None, or Some(k) when its
     \* env.step raises after k successful steps
     env_fails_in |-> None,
     error |-> "none", events |-> << >>, ret |-> << >>]

\* the episode a driver works on: self._episode, or the local _episode
Cur(F, local) == IF local THEN F.local_episode ELSE F.episode

SetCur(F, local, e) ==
    IF local THEN [F EXCEPT !.local_episode = e] ELSE [F EXCEPT !.episode = e]

\* a notification, an environment call or a connector pass, as seen from
\* outside: what the episode and the runner looked like when it happened
Event(F, name, e) ==
    [name |-> name, id_ |-> e.id_, env_t |-> e.env_t, seeded |-> e.seeded,
     is_done |-> e.is_done, is_finalized |-> e.is_finalized,
     cached |-> F.cached_to_module # None,
     queued |-> Ids(F.done_episodes_for_metrics)]

\* self.env.step(actions_for_env[0]) as seen from outside: the episode as it
\* is when the environment is stepped, the actions it is stepped with, and
\* the whole of to_env as the module or the random branch produced it
EnvStepEvent(F, e, actions_for_env) ==
    [name |-> "env_step", id_ |-> e.id_, env_t |-> e.env_t, seeded |-> e.seeded,
     is_done |-> e.is_done, is_finalized |-> e.is_finalized,
     cached |-> F.cached_to_module # None,
     queued |-> Ids(F.done_episodes_for_metrics),
     agents_to_act |-> GetAgentsToAct(e),
     actions_for_env |-> actions_for_env,
     to_env |-> F.to_env]

\* the ids of the episodes the runner or the running call still holds
HeldIds(F) ==
    (IF F.episode = None THEN {} ELSE {F.episode.id_})
    \cup (IF F.local_episode = None THEN {} ELSE {F.local_episode.id_})
    \cup Ids(F.done_episodes_for_metrics) \cup Ids(F.done_episodes_to_return)
    \cup DOMAIN F.ongoing_episodes_for_metrics

\* a new episode id (uuid4): an id no held episode has; the least such number
FreshId(F) == CHOOSE i \in 1..(Cardinality(HeldIds(F)) + 1) :
                  /\ i \notin HeldIds(F)
                  /\ \A j \in 1..(i - 1) : j \in HeldIds(F)

\* `episode = self._new_episode()` and the on_episode_created callback
NewEpisode(F, local) ==
    LET e == MultiAgentEpisode(FreshId(F), F.config)
    IN  [SetCur(F, local, e) EXCEPT
            !.events = Append(@, Event(F, "on_episode_created", e))]

\* `obs, infos = self.env.reset()`, add_env_reset, the on_episode_start callback
ResetAndStart(F, local) ==
    LET r  == EnvReset(F.config, F.env)
        e0 == Cur(F, local)
        e  == AddEnvReset(e0, r.obs)
    IN  [SetCur(F, local, e) EXCEPT
            !.env = r.env,
            !.whole = Put(@, e.id_, e),
            !.events = @ \o << Event(F, "env_reset", e0),
                               Event(F, "on_episode_start", e) >>]

\* self._env_to_module(rl_module, episodes=[e], explore, shared_data): what the
\* pipeline hands to the module is computed from the episode as it is now
EnvToModule(e) ==
    [kind |-> "to_module", id_ |-> e.id_, env_t |-> e.env_t,
     agents |-> GetAgentsToAct(e)]

\* module.forward_exploration / forward_inference, then self._module_to_env:
\* an action, its log-probability and the distribution inputs for every agent
\* in the batch, each a function of the column, the agent and the batch the
\* module was given
ModuleToEnv(to_module) ==
    [c \in {"actions", "action_logp", "action_dist_inputs"} |->
        PyList(PyDict([a \in to_module.agents |->
                          [by |-> c, agent |-> a,
                           id_ |-> to_module.id_, env_t |-> to_module.env_t]]))]

\* IncreaseSampledMetrics logging the environment steps once per observing
\* agent, inside the loop over next_obs
IncreaseSampledMetricsPerAgent(m, num_steps, next_obs, e) ==
    [m EXCEPT
       !.num_env_steps_sampled = @ + num_steps * Cardinality(next_obs),
       !.num_env_steps_sampled_lifetime = @ + num_steps * Cardinality(next_obs),
       !.num_agent_steps_sampled = [a \in AgentIds |-> @[a] + IF a \in next_obs THEN 1 ELSE 0],
       !.num_agent_steps_sampled_lifetime =
           [a \in AgentIds |-> @[a] + IF a \in next_obs THEN 1 ELSE 0],
       !.num_module_steps_sampled =
           [mid \in ModuleIds |-> @[mid] + Cardinality({a \in next_obs : ModuleFor(e, a) = mid})],
       !.num_module_steps_sampled_lifetime =
           [mid \in ModuleIds |-> @[mid] + Cardinality({a \in next_obs : ModuleFor(e, a) = mid})]]

\* self._increase_sampled_metrics(num_steps, next_obs, episode)
IncreaseSampledMetrics(m, num_steps, next_obs, e) ==
    [m EXCEPT
       !.num_env_steps_sampled = @ + num_steps,
       !.num_env_steps_sampled_lifetime = @ + num_steps,
       !.num_agent_steps_sampled = [a \in AgentIds |-> @[a] + IF a \in next_obs THEN 1 ELSE 0],
       !.num_agent_steps_sampled_lifetime =
           [a \in AgentIds |-> @[a] + IF a \in next_obs THEN 1 ELSE 0],
       !.num_module_steps_sampled =
           [mid \in ModuleIds |-> @[mid] + Cardinality({a \in next_obs : ModuleFor(e, a) = mid})],
       !.num_module_steps_sampled_lifetime =
           [mid \in ModuleIds |-> @[mid] + Cardinality({a \in next_obs : ModuleFor(e, a) = mid})]]

\* ExtraModelOutputs assigning `extra_model_outputs[agent_id] = {col: val}`:
\* every column replaces the agent's earlier ones, one column is left
ExtraModelOutputsLastColumn(to_env) ==
    LET agentsOf(c) == DOMAIN to_env[c].items[1].map
        lastOf(a) == CHOOSE c \in DOMAIN to_env : a \in agentsOf(c)
    IN  [a \in UNION {agentsOf(c) : c \in DOMAIN to_env} |->
           [c \in {lastOf(a)} |-> to_env[c].items[1].map[a]]]

\* to_env (col -> [agent -> value]) reshaped to agent -> col -> value
ExtraModelOutputs(to_env) ==
    LET agentsOf(c) == DOMAIN to_env[c].items[1].map
    IN  [a \in UNION {agentsOf(c) : c \in DOMAIN to_env} |->
           [c \in {c \in DOMAIN to_env : a \in agentsOf(c)} |-> to_env[c].items[1].map[a]]]

\* dict.pop(key): the dict without the key
Pop(d, key) == Restrict(d, (DOMAIN d) \ {key})

\* to_env.pop(Columns.ACTIONS_FOR_ENV, actions)
ActionsForEnv(to_env) ==
    IF "actions_for_env" \in DOMAIN to_env THEN to_env["actions_for_env"]
    ELSE to_env["actions"]

\* an int where None is possible too
Some(n) == [kind |-> "int", v |-> n]

\* self.env.step(...) raises: the exception leaves the driver and sample.
\* The event keeps what the runner held when the step was attempted.
EnvStepRaises(F, local) ==
    [F EXCEPT !.error = "EnvError",
              !.events = Append(@, [name |-> "env_step_raised",
                                    episode |-> Cur(F, local),
                                    metrics |-> F.metrics])]

\* StepEpisode with `ts` advanced by the number of agents that observed instead
\* of the number of environment steps
StepEpisodeCountingAgentSteps(F, local) ==
    IF ~PyIndex0(ActionsForEnv(F.to_env)).ok THEN [F EXCEPT !.error = "KeyError"]
    ELSE IF F.env_fails_in = Some(0) THEN EnvStepRaises(F, local)
    ELSE
      LET e       == Cur(F, local)
          actions == PyIndex0(F.to_env["actions"]).val.map
          out     == EnvStep(F.config, F.env)
          emo     == ExtraModelOutputs(Pop(Pop(F.to_env, "actions"), "actions_for_env"))
          e1      == AddEnvStep(e, out, actions, emo)
      IN  [SetCur(F, local, e1) EXCEPT
              !.env = out.env,
              !.env_fails_in = IF @ = None THEN @ ELSE Some(@.v - 1),
              !.metrics = IncreaseSampledMetrics(@, num_envs, out.obs, e),
              !.ts = @ + Cardinality(out.obs),
              !.whole = Put(@, e.id_, AddEnvStep(@[e.id_], out, actions, emo)),
              !.events = @ \o << EnvStepEvent(F, e, PyIndex0(ActionsForEnv(F.to_env)).val),
                                 Event(F, "on_episode_step", e1) >>]

\* StepEpisode logging the environment step before self.env.step is called
StepEpisodeCountingFirst(F, local) ==
    IF ~PyIndex0(ActionsForEnv(F.to_env)).ok THEN [F EXCEPT !.error = "KeyError"]
    ELSE IF F.env_fails_in = Some(0)
    THEN [EnvStepRaises(F, local) EXCEPT
             !.metrics.num_env_steps_sampled = @ + num_envs,
             !.metrics.num_env_steps_sampled_lifetime = @ + num_envs]
    ELSE
      LET e       == Cur(F, local)
          actions == PyIndex0(F.to_env["actions"]).val.map
          out     == EnvStep(F.config, F.env)
          emo     == ExtraModelOutputs(Pop(Pop(F.to_env, "actions"), "actions_for_env"))
          e1      == AddEnvStep(e, out, actions, emo)
      IN  [SetCur(F, local, e1) EXCEPT
              !.env = out.env,
              !.env_fails_in = IF @ = None THEN @ ELSE Some(@.v - 1),
              !.metrics = IncreaseSampledMetrics(@, num_envs, out.obs, e),
              !.ts = @ + num_envs,
              !.whole = Put(@, e.id_, AddEnvStep(@[e.id_], out, actions, emo)),
              !.events = @ \o << EnvStepEvent(F, e, PyIndex0(ActionsForEnv(F.to_env)).val),
                                 Event(F, "on_episode_step", e1) >>]

\* From `actions = to_env.pop(Columns.ACTIONS)` to the on_episode_step callback:
\* step the environment, count the step, record it in the episode.
StepEpisode(F, local) ==
    IF ~PyIndex0(ActionsForEnv(F.to_env)).ok THEN [F EXCEPT !.error = "KeyError"]
    ELSE IF F.env_fails_in = Some(0) THEN EnvStepRaises(F, local)
    ELSE
      LET e       == Cur(F, local)
          actions == PyIndex0(F.to_env["actions"]).val.map
          out     == EnvStep(F.config, F.env)
          emo     == ExtraModelOutputs(Pop(Pop(F.to_env, "actions"), "actions_for_env"))
          e1      == AddEnvStep(e, out, actions, emo)
      IN  [SetCur(F, local, e1) EXCEPT
              !.env = out.env,
              !.env_fails_in = IF @ = None THEN @ ELSE Some(@.v - 1),
              !.metrics = IncreaseSampledMetrics(@, num_envs, out.obs, e),
              !.ts = @ + num_envs,
              !.whole = Put(@, e.id_, AddEnvStep(@[e.id_], out, actions, emo)),
              !.events = @ \o << EnvStepEvent(F, e, PyIndex0(ActionsForEnv(F.to_env)).val),
                                 Event(F, "on_episode_step", e1) >>]

\* `if episode.is_done:` the extra env-to-module pass, the on_episode_end
\* callback, finalize, and the append to done_episodes_to_return
WrapUpDone(F, local) ==
    LET e  == Cur(F, local)
        fe == Finalize(e, TRUE)
    IN  [SetCur(F, local, fe) EXCEPT
            !.done_since_pull = @ + 1,
            !.done_episodes_to_return = Append(@, fe),
            !.events = @ \o (IF F.module # None
                             THEN << Event(F, "env_to_module", e) >> ELSE << >>)
                         \o << Event(F, "on_episode_end", e), Event(F, "finalize", fe) >>]

---------------------------------------------------------------------------
(* _sample_timesteps *)

\* the reset block after the new episode is created: registry cleared,
\* environment reset, cache cleared, on_episode_start, then add_env_reset
ResetBlockTimesteps(F) ==
    LET r == EnvReset(F.config, F.env)
        G == [F EXCEPT !.ongoing_episodes_for_metrics = EmptyDict,
                       !.env = r.env,
                       !.cached_to_module = None,
                       !.needs_initial_reset = FALSE]
        e == AddEnvReset(F.episode, r.obs)
    IN  [G EXCEPT !.episode = e,
                  !.whole = Put(@, e.id_, e),
                  !.events = @ \o << Event(F, "env_reset", F.episode),
                                     Event(G, "on_episode_start", F.episode) >>]

\* `if force_reset or self._needs_initial_reset:` ...
InitialResetTimesteps(F) == Bind(NewEpisode(F, FALSE), ResetBlockTimesteps)

\* the actions of one iteration: random, or connector -> module -> connector
ComputeActionsTimesteps(F, random_actions) ==
    IF random_actions
    THEN [F EXCEPT !.to_env =
            [c \in {"actions"} |->
                PyList(PyDict(Restrict(ActionSpaceSample,
                                       AgentIds \cap GetAgentsToAct(F.episode))))]]
    ELSE
        LET use_cache == F.cached_to_module # None
            to_module == IF use_cache THEN F.cached_to_module ELSE EnvToModule(F.episode)
            ev == Event(F, IF use_cache THEN "use_cached_to_module" ELSE "env_to_module",
                        F.episode)
        IN  IF F.module = None
            THEN [F EXCEPT !.cached_to_module = None, !.events = Append(@, ev),
                           !.error = "AttributeError"]
            ELSE [F EXCEPT !.cached_to_module = None, !.events = Append(@, ev),
                           !.to_env = ModuleToEnv(to_module)]

\* DoneBlockTimesteps that goes on with the done episode: no new episode, no
\* reset
DoneBlockTimestepsKeepingDone(F) == WrapUpDone(F, FALSE)

\* `if self._episode.is_done:` ... wrap up the old episode, start a new one
DoneBlockTimesteps(F) ==
    Bind(Bind(WrapUpDone(F, FALSE), LAMBDA G : NewEpisode(G, FALSE)),
         LAMBDA G : ResetAndStart(G, FALSE))

\* IterationTimesteps without `ts += ...`: the loop counter stays where it was
IterationTimestepsNotCounting(F, random_actions) ==
    Bind(ComputeActionsTimesteps(F, random_actions), LAMBDA F1 :
        IF F1.error # "none" THEN F1
        ELSE Bind(StepEpisode(F1, FALSE), LAMBDA F2 :
                IF F2.error # "none" THEN F2
                ELSE IF F2.episode.is_done THEN [DoneBlockTimesteps(F2) EXCEPT !.ts = F.ts]
                ELSE [F2 EXCEPT !.ts = F.ts]))

\* one iteration of `while ts < num_timesteps:`
IterationTimesteps(F, random_actions) ==
    Bind(ComputeActionsTimesteps(F, random_actions), LAMBDA F1 :
        IF F1.error # "none" THEN F1
        ELSE Bind(StepEpisode(F1, FALSE), LAMBDA F2 :
                IF F2.error # "none" THEN F2
                ELSE IF F2.episode.is_done THEN DoneBlockTimesteps(F2)
                ELSE F2))

RECURSIVE LoopTimesteps(_, _, _)
LoopTimesteps(F, num_timesteps, random_actions) ==
    IF F.error # "none" \/ ~(F.ts < num_timesteps) THEN F
    ELSE Bind(IterationTimesteps(F, random_actions),
              LAMBDA G : LoopTimesteps(G, num_timesteps, random_actions))

\* dict[key].append(x) on a defaultdict(list)
AppendTo(d, key, x) ==
    Put(d, key, Append(IF key \in DOMAIN d THEN d[key] ELSE << >>, x))

\* AfterLoopTimesteps without `self._episode = ongoing_episode_continuation`:
\* the runner goes on with the chunk it has just returned
AfterLoopTimestepsKeepingChunk(F) ==
    LET surfaced == F.episode.env_t > 0
        chunk == Finalize(F.episode, TRUE)
    IN  [F EXCEPT
           !.cached_to_module = IF F.module # None THEN EnvToModule(F.episode) ELSE @,
           !.done_episodes_for_metrics = @ \o F.done_episodes_to_return,
           !.ongoing_episodes_for_metrics =
               IF surfaced THEN AppendTo(@, chunk.id_, chunk) ELSE @,
           !.episode = chunk,
           !.ret = F.done_episodes_to_return
                   \o (IF surfaced THEN << chunk >> ELSE << >>),
           !.events = @ \o (IF F.module # None
                            THEN << Event(F, "env_to_module", F.episode) >> ELSE << >>)
                        \o (IF surfaced
                            THEN << Event(F, "finalize", chunk) >> ELSE << >>)]

\* AfterLoopTimesteps returning `ongoing_episodes_to_return + done_episodes_to_return`
AfterLoopTimestepsChunkFirst(F) ==
    LET ongoing_episode_continuation == Cut(F.episode, episode_lookback_horizon)
        surfaced == F.episode.env_t > 0
        chunk == Finalize(F.episode, TRUE)
    IN  [F EXCEPT
           !.cached_to_module = IF F.module # None THEN EnvToModule(F.episode) ELSE @,
           !.done_episodes_for_metrics = @ \o F.done_episodes_to_return,
           !.ongoing_episodes_for_metrics =
               IF surfaced THEN AppendTo(@, chunk.id_, chunk) ELSE @,
           !.episode = ongoing_episode_continuation,
           !.ret = (IF surfaced THEN << chunk >> ELSE << >>)
                   \o F.done_episodes_to_return,
           !.events = @ \o (IF F.module # None
                            THEN << Event(F, "env_to_module", F.episode) >> ELSE << >>)
                        \o (IF surfaced
                            THEN << Event(F, "finalize", chunk) >> ELSE << >>)]

\* AfterLoopTimesteps without the append to self._ongoing_episodes_for_metrics
AfterLoopTimestepsNotRegistering(F) ==
    LET ongoing_episode_continuation == Cut(F.episode, episode_lookback_horizon)
        surfaced == F.episode.env_t > 0
        chunk == Finalize(F.episode, TRUE)
    IN  [F EXCEPT
           !.cached_to_module = IF F.module # None THEN EnvToModule(F.episode) ELSE @,
           !.done_episodes_for_metrics = @ \o F.done_episodes_to_return,
           !.episode = ongoing_episode_continuation,
           !.ret = F.done_episodes_to_return
                   \o (IF surfaced THEN << chunk >> ELSE << >>),
           !.events = @ \o (IF F.module # None
                            THEN << Event(F, "env_to_module", F.episode) >> ELSE << >>)
                        \o (IF surfaced
                            THEN << Event(F, "finalize", chunk) >> ELSE << >>)]

\* after the loop: look-ahead connector pass, cut, registry, return value
AfterLoopTimesteps(F) ==
    LET ongoing_episode_continuation == Cut(F.episode, episode_lookback_horizon)
        surfaced == F.episode.env_t > 0
        \* the registry and the return value hold the same object, finalized in place
        chunk == Finalize(F.episode, TRUE)
    IN  [F EXCEPT
           !.cached_to_module = IF F.module # None THEN EnvToModule(F.episode) ELSE @,
           !.done_episodes_for_metrics = @ \o F.done_episodes_to_return,
           !.ongoing_episodes_for_metrics =
               IF surfaced THEN AppendTo(@, chunk.id_, chunk) ELSE @,
           !.episode = ongoing_episode_continuation,
           !.ret = F.done_episodes_to_return
                   \o (IF surfaced THEN << chunk >> ELSE << >>),
           !.events = @ \o (IF F.module # None
                            THEN << Event(F, "env_to_module", F.episode) >> ELSE << >>)
                        \o (IF surfaced
                            THEN << Event(F, "finalize", chunk) >> ELSE << >>)]

SampleTimestepsOp(F, num_timesteps, random_actions, force_reset) ==
    Bind(IF force_reset \/ F.needs_initial_reset THEN InitialResetTimesteps(F) ELSE F,
         LAMBDA F1 :
            Bind(LoopTimesteps(F1, num_timesteps, random_actions), LAMBDA F2 :
                IF F2.error # "none" THEN F2 ELSE AfterLoopTimesteps(F2)))

---------------------------------------------------------------------------
(* _sample_episodes *)

\* InitialResetEpisodes without `self._needs_initial_reset = True`
InitialResetEpisodesLeavingFlag(F) ==
    Bind(NewEpisode(F, TRUE), LAMBDA G : ResetAndStart(G, TRUE))

\* the head of _sample_episodes, up to the loop
InitialResetEpisodes(F) ==
    Bind(NewEpisode([F EXCEPT !.needs_initial_reset = TRUE], TRUE),
         LAMBDA G : ResetAndStart(G, TRUE))

\* the actions of one iteration.  In random mode the actions are a dict, not
\* a one-element list of dicts as in _sample_timesteps.
ComputeActionsEpisodes(F, random_actions) ==
    IF random_actions
    THEN [F EXCEPT !.to_env =
            [c \in {"actions"} |->
                PyDict(Restrict(ActionSpaceSample,
                                AgentIds \cap GetAgentsToAct(F.local_episode)))]]
    ELSE
        LET ev == Event(F, "env_to_module", F.local_episode)
        IN  IF F.module = None
            THEN [F EXCEPT !.events = Append(@, ev), !.error = "AttributeError"]
            ELSE [F EXCEPT !.events = Append(@, ev),
                           !.to_env = ModuleToEnv(EnvToModule(F.local_episode))]

\* `if _episode.is_done:` ... up to the early-out
DoneBlockEpisodes(F) == [WrapUpDone(F, TRUE) EXCEPT !.eps = @ + 1]

\* NextEpisodeEpisodes without the on_episode_created callback
NextEpisodeEpisodesWithoutCreated(F) ==
    Bind(SetCur(F, TRUE, MultiAgentEpisode(FreshId(F), F.config)),
         LAMBDA G : ResetAndStart(G, TRUE))

\* the new episode that follows a done one
NextEpisodeEpisodes(F) == Bind(NewEpisode(F, TRUE), LAMBDA G : ResetAndStart(G, TRUE))

\* one iteration of `while eps < num_episodes:`; the `break` at
\* eps == num_episodes leaves the loop where its condition would
IterationEpisodes(F, num_episodes, random_actions) ==
    Bind(ComputeActionsEpisodes(F, random_actions), LAMBDA F1 :
        IF F1.error # "none" THEN F1
        ELSE Bind(StepEpisode(F1, TRUE), LAMBDA F2 :
            IF F2.error # "none" THEN F2
            ELSE IF ~F2.local_episode.is_done THEN F2
            ELSE Bind(DoneBlockEpisodes(F2), LAMBDA F3 :
                IF F3.eps = num_episodes THEN F3
                ELSE NextEpisodeEpisodes(F3))))

\* `while eps < num_episodes:`
RECURSIVE LoopEpisodes(_, _, _)
LoopEpisodes(F, num_episodes, random_actions) ==
    IF F.error # "none" \/ ~(F.eps < num_episodes) THEN F
    ELSE Bind(IterationEpisodes(F, num_episodes, random_actions),
              LAMBDA G : LoopEpisodes(G, num_episodes, random_actions))

SampleEpisodesOp(F, num_episodes, random_actions) ==
    Bind(InitialResetEpisodes(F), LAMBDA F0 :
        Bind(LoopEpisodes(F0, num_episodes, random_actions), LAMBDA F1 :
            IF F1.error # "none" THEN F1
            ELSE [F1 EXCEPT !.done_episodes_for_metrics = @ \o F1.done_episodes_to_return,
                            !.ret = F1.done_episodes_to_return]))

---------------------------------------------------------------------------
(* sample *)

\* the on_sample_end callback
OnSampleEnd(F) ==
    [F EXCEPT !.events = Append(@, [name |-> "on_sample_end"])]

\* sample that looks at its arguments only after it has sampled
SampleOpCheckingLate(F, num_timesteps, num_episodes, random_actions, force_reset) ==
    LET nt == IF num_timesteps = None /\ num_episodes = None
                 /\ F.config.batch_mode = "truncate_episodes"
              THEN Some(rollout_fragment_length) ELSE num_timesteps
        ne == IF num_timesteps = None /\ num_episodes = None
                 /\ F.config.batch_mode # "truncate_episodes"
              THEN Some(1) ELSE num_episodes
    IN  Bind(IF nt # None
             THEN SampleTimestepsOp(F, nt.v, random_actions, force_reset)
             ELSE SampleEpisodesOp(F, ne.v, random_actions),
             LAMBDA F1 :
                IF F1.error # "none" THEN F1
                ELSE IF num_timesteps # None /\ num_episodes # None
                THEN [F1 EXCEPT !.error = "AssertionError"]
                ELSE OnSampleEnd(F1))

\* sample(num_timesteps, num_episodes, random_actions, force_reset)
SampleOp(F, num_timesteps, num_episodes, random_actions, force_reset) ==
    IF num_timesteps # None /\ num_episodes # None
    THEN [F EXCEPT !.error = "AssertionError"]
    ELSE
      LET nt == IF num_timesteps = None /\ num_episodes = None
                   /\ F.config.batch_mode = "truncate_episodes"
                THEN Some(rollout_fragment_length) ELSE num_timesteps
          ne == IF num_timesteps = None /\ num_episodes = None
                   /\ F.config.batch_mode # "truncate_episodes"
                THEN Some(1) ELSE num_episodes
      IN  Bind(IF nt # None
               THEN SampleTimestepsOp(F, nt.v, random_actions, force_reset)
               ELSE SampleEpisodesOp(F, ne.v, random_actions),
               LAMBDA F1 : IF F1.error # "none" THEN F1 ELSE OnSampleEnd(F1))

---------------------------------------------------------------------------
(* get_metrics *)

\* position of an agent in the key order of agent_episodes
OrderOf(a) == CHOOSE i \in 1..Len(AgentOrder) : AgentOrder[i] = a

\* {sa_eps.module_id: sa_eps.get_return() for sa_eps in eps.agent_episodes.values()}:
\* a later agent of the same module overwrites an earlier one
ModuleReturnsOf(eps) ==
    LET ae == eps.agent_episodes
        agentsOf(mid) == {a \in DOMAIN ae : ae[a].module_id = mid}
        lastOf(mid) == CHOOSE a \in agentsOf(mid) :
                           \A b \in agentsOf(mid) : OrderOf(b) <= OrderOf(a)
    IN  [mid \in {ae[a].module_id : a \in DOMAIN ae} |-> ae[lastOf(mid)].ret]

\* the values computed from the done episode itself
OwnMetrics(eps) ==
    [id_ |-> eps.id_,
     episode_length |-> EpLen(eps),
     agent_steps |-> [a \in DOMAIN eps.agent_episodes |-> eps.agent_episodes[a].len],
     episode_return |-> GetReturn(eps),
     agent_episode_returns |->
         [a \in DOMAIN eps.agent_episodes |-> eps.agent_episodes[a].ret],
     module_episode_returns |-> ModuleReturnsOf(eps),
     num_chunks |-> 1]

\* AddChunk without `episode_length += len(eps2)`
AddChunkWithoutLength(acc, eps2) ==
    LET ae == eps2.agent_episodes
        mods == {ae[a].module_id : a \in DOMAIN ae}
    IN  [acc EXCEPT
           !.episode_return = @ + GetReturn(eps2),
           !.agent_steps = [a \in (DOMAIN @) \cup DOMAIN ae |->
                               Get0(@, a) + IF a \in DOMAIN ae THEN ae[a].len ELSE 0],
           !.agent_episode_returns = [a \in (DOMAIN @) \cup DOMAIN ae |->
                               Get0(@, a) + IF a \in DOMAIN ae THEN ae[a].ret ELSE 0],
           !.module_episode_returns = [mid \in (DOMAIN @) \cup mods |->
                               Get0(@, mid)
                               + SumValues([a \in {b \in DOMAIN ae : ae[b].module_id = mid}
                                              |-> ae[a].ret])],
           !.num_chunks = @ + 1]

\* `for eps2 in self._ongoing_episodes_for_metrics[eps.id_]:` one earlier chunk
AddChunk(acc, eps2) ==
    LET ae == eps2.agent_episodes
        mods == {ae[a].module_id : a \in DOMAIN ae}
    IN  [acc EXCEPT
           !.episode_length = @ + EpLen(eps2),
           !.episode_return = @ + GetReturn(eps2),
           !.agent_steps = [a \in (DOMAIN @) \cup DOMAIN ae |->
                               Get0(@, a) + IF a \in DOMAIN ae THEN ae[a].len ELSE 0],
           !.agent_episode_returns = [a \in (DOMAIN @) \cup DOMAIN ae |->
                               Get0(@, a) + IF a \in DOMAIN ae THEN ae[a].ret ELSE 0],
           !.module_episode_returns = [mid \in (DOMAIN @) \cup mods |->
                               Get0(@, mid)
                               + SumValues([a \in {b \in DOMAIN ae : ae[b].module_id = mid}
                                              |-> ae[a].ret])],
           !.num_chunks = @ + 1]

RECURSIVE AddChunks(_, _, _)
AddChunks(acc, chunks, i) ==
    IF i > Len(chunks) THEN acc
    ELSE Bind(AddChunk(acc, chunks[i]), LAMBDA acc1 : AddChunks(acc1, chunks, i + 1))

\* what _log_episode_metrics receives for one done episode
EpisodeMetrics(eps, ongoing) ==
    IF eps.id_ \in DOMAIN ongoing
    THEN AddChunks(OwnMetrics(eps), ongoing[eps.id_], 1)
    ELSE OwnMetrics(eps)

\* LoopMetrics without `del self._ongoing_episodes_for_metrics[eps.id_]`
RECURSIVE LoopMetricsKeepingEntry(_, _)
LoopMetricsKeepingEntry(F, i) ==
    IF i > Len(F.done_episodes_for_metrics) THEN F
    ELSE LET eps == F.done_episodes_for_metrics[i]
         IN  IF ~eps.is_done THEN [F EXCEPT !.error = "AssertionError"]
             ELSE Bind([F EXCEPT
                          !.ret = Append(@, EpisodeMetrics(eps, F.ongoing_episodes_for_metrics))],
                       LAMBDA G : LoopMetricsKeepingEntry(G, i + 1))

\* `for eps in self._done_episodes_for_metrics:`
RECURSIVE LoopMetrics(_, _)
LoopMetrics(F, i) ==
    IF i > Len(F.done_episodes_for_metrics) THEN F
    ELSE LET eps == F.done_episodes_for_metrics[i]
         IN  IF ~eps.is_done THEN [F EXCEPT !.error = "AssertionError"]
             ELSE Bind([F EXCEPT
                          !.ret = Append(@, EpisodeMetrics(eps, F.ongoing_episodes_for_metrics)),
                          !.ongoing_episodes_for_metrics =
                              Restrict(@, (DOMAIN @) \ {eps.id_})],
                       LAMBDA G : LoopMetrics(G, i + 1))

\* self.metrics.reduce(): the values it returns, and the reset of those logged
\* with clear_on_reduce
MetricsReduce(m) ==
    [m EXCEPT !.num_env_steps_sampled = 0,
              !.num_agent_steps_sampled = [a \in AgentIds |-> 0],
              !.num_module_steps_sampled = [mid \in ModuleIds |-> 0]]

\* get_metrics without `self._done_episodes_for_metrics.clear()`
GetMetricsOpKeepingQueue(F) ==
    Bind(LoopMetrics(F, 1), LAMBDA F1 :
        IF F1.error # "none" THEN F1
        ELSE [F1 EXCEPT
                !.ret = [num_episodes |-> Len(F1.done_episodes_for_metrics),
                         logged |-> F1.ret,
                         sampled |-> F1.metrics],
                !.done_since_pull = 0,
                !.metrics = MetricsReduce(@)])

\* get_metrics()
GetMetricsOp(F) ==
    Bind(LoopMetrics(F, 1), LAMBDA F1 :
        IF F1.error # "none" THEN F1
        ELSE [F1 EXCEPT
                !.ret = [num_episodes |-> Len(F1.done_episodes_for_metrics),
                         logged |-> F1.ret,
                         sampled |-> F1.metrics],
                !.done_episodes_for_metrics = << >>,
                !.done_since_pull = 0,
                !.metrics = MetricsReduce(@)])

---------------------------------------------------------------------------
(* set_state, set_weights.  A state is a dict; S is the runner's            *)
(* synchronised part.                                                       *)

SyncState ==
    [module |-> module, weights_seq_no |-> weights_seq_no, connectors |-> connectors,
     metrics |-> metrics, error |-> "none", events |-> << >>]

\* self.metrics.set_value(key=NUM_ENV_STEPS_SAMPLED_LIFETIME, value, reduce="sum")
MetricsSetValueSum(m, value) == [m EXCEPT !.num_env_steps_sampled_lifetime = @ + value]

\* SetRLModuleState applying the weights also when the incoming version equals
\* the local one
SetRLModuleStateOnEqual(S, state) ==
    LET seq_no == IF "weights_seq_no" \in DOMAIN state THEN state["weights_seq_no"] ELSE 0
        apply == seq_no = 0 \/ S.weights_seq_no <= seq_no
    IN  IF apply /\ S.module = None THEN [S EXCEPT !.error = "AttributeError"]
        ELSE [S EXCEPT
                !.module = IF apply
                           THEN [kind |-> "module", weights |-> state["rl_module"]]
                           ELSE @,
                !.events = IF apply THEN Append(@, "module.set_state") ELSE @,
                !.weights_seq_no = IF seq_no > 0 THEN seq_no ELSE @]

\* `if "rl_module" in state:` ...
SetRLModuleState(S, state) ==
    LET seq_no == IF "weights_seq_no" \in DOMAIN state THEN state["weights_seq_no"] ELSE 0
        apply == seq_no = 0 \/ S.weights_seq_no < seq_no
    IN  IF apply /\ S.module = None THEN [S EXCEPT !.error = "AttributeError"]
        ELSE [S EXCEPT
                !.module = IF apply
                           THEN [kind |-> "module", weights |-> state["rl_module"]]
                           ELSE @,
                !.events = IF apply THEN Append(@, "module.set_state") ELSE @,
                !.weights_seq_no = IF seq_no > 0 THEN seq_no ELSE @]

\* the two connector pipelines: always applied when present
SetConnectorStates(S, state) ==
    [S EXCEPT
       !.connectors.env_to_module =
           IF "env_to_module_connector" \in DOMAIN state
           THEN state["env_to_module_connector"] ELSE @,
       !.connectors.module_to_env =
           IF "module_to_env_connector" \in DOMAIN state
           THEN state["module_to_env_connector"] ELSE @]

\* SetLifetimeCounter replacing the local count by the incoming one
SetLifetimeCounterOverriding(S, state) ==
    IF "num_env_steps_sampled_lifetime" \in DOMAIN state
    THEN [S EXCEPT !.metrics.num_env_steps_sampled_lifetime =
             state["num_env_steps_sampled_lifetime"]]
    ELSE S

\* `if NUM_ENV_STEPS_SAMPLED_LIFETIME in state:` ...
SetLifetimeCounter(S, state) ==
    IF "num_env_steps_sampled_lifetime" \in DOMAIN state
    THEN [S EXCEPT !.metrics =
             MetricsSetValueSum(@, state["num_env_steps_sampled_lifetime"])]
    ELSE S

SetStateOp(S, state) ==
    Bind(SetConnectorStates(S, state), LAMBDA S1 :
        Bind(IF "rl_module" \in DOMAIN state THEN SetRLModuleState(S1, state) ELSE S1,
             LAMBDA S2 :
                IF S2.error # "none" THEN S2 ELSE SetLifetimeCounter(S2, state)))

\* set_weights(weights, global_vars=None, weights_seq_no)
SetWeightsOp(S, weights, seq_no) ==
    SetStateOp(S, [k \in {"rl_module", "weights_seq_no"} |->
                      IF k = "rl_module" THEN weights ELSE seq_no])

---------------------------------------------------------------------------
(* The state after __init__, and the calls. *)

Mappings ==
    { [a \in AgentIds |-> IF a = "a1" THEN "m1" ELSE "m2"],   \* one module per agent
      [a \in AgentIds |-> "m1"] }                             \* both agents on one module

SeparateModules == [a \in AgentIds |-> IF a = "a1" THEN "m1" ELSE "m2"]

\* The configurations a runner is built with.  Episode length, acting pattern
\* and the presence of a module spec (the three settings the control flow of
\* the drivers depends on) are combined freely; the agent-to-module mapping
\* and the batch mode follow from them in such a way that every two settings
\* still occur together in some configuration.
Configs ==
    { c \in [ep_len : 1..MaxEpLen, pattern : {"all", "alternating"},
             has_module_spec : BOOLEAN, mapping : Mappings,
             batch_mode : {"truncate_episodes", "complete_episodes"}] :
        /\ (c.mapping = SeparateModules) <=> ((c.pattern = "all") # c.has_module_spec)
        /\ (c.batch_mode = "truncate_episodes")
              <=> ((c.mapping = SeparateModules) = (c.ep_len % 2 = 1)) }

\* self._setup_metrics(): nothing logged yet
SetupMetrics ==
    [num_env_steps_sampled |-> 0, num_env_steps_sampled_lifetime |-> 0,
     num_agent_steps_sampled |-> [a \in AgentIds |-> 0],
     num_agent_steps_sampled_lifetime |-> [a \in AgentIds |-> 0],
     num_module_steps_sampled |-> [mid \in ModuleIds |-> 0],
     num_module_steps_sampled_lifetime |-> [mid \in ModuleIds |-> 0]]

\* self._make_module(): the module, or None when the config has no module spec
MakeModule(cfg) ==
    IF cfg.has_module_spec THEN [kind |-> "module", weights |-> "w0"] ELSE None

Init ==
    /\ config \in Configs
    /\ env = [t |-> 0, made |-> 1, reset |-> FALSE]
    /\ module = MakeModule(config)
    /\ weights_seq_no = 0
    /\ connectors = [env_to_module |-> "c0", module_to_env |-> "c0"]
    /\ episode = None
    /\ needs_initial_reset = TRUE
    /\ cached_to_module = None
    /\ done_episodes_for_metrics = << >>
    /\ ongoing_episodes_for_metrics = EmptyDict
    /\ metrics = SetupMetrics
    /\ whole = EmptyDict
    /\ done_since_pull = 0
    /\ last = [op |-> "__init__", args |-> EmptyDict, error |-> "none",
               ret |-> << >>, events |-> << >>]
    /\ running = None

\* the history keeps the episodes that are in flight, queued or just reported
LiveIds(F, reported) ==
    (IF F.episode = None THEN {} ELSE {F.episode.id_})
    \cup Ids(F.done_episodes_for_metrics) \cup reported

\* the runner's fields after a call that ran in frame F
Commit(F, reported) ==
    /\ env' = F.env
    /\ episode' = F.episode
    /\ needs_initial_reset' = F.needs_initial_reset
    /\ cached_to_module' = F.cached_to_module
    /\ done_episodes_for_metrics' = F.done_episodes_for_metrics
    /\ ongoing_episodes_for_metrics' = F.ongoing_episodes_for_metrics
    /\ metrics' = F.metrics
    /\ whole' = Restrict(F.whole, (DOMAIN F.whole) \cap LiveIds(F, reported))
    /\ done_since_pull' = F.done_since_pull
    /\ running' = None

\* the arguments sample is called with: a timestep count, an episode count,
\* neither, or (wrongly) both.  random_actions is varied where the call can
\* take a step, force_reset where the driver reads it.
SampleArgs ==
    [num_timesteps : {Some(n) : n \in 1..MaxTimesteps}, num_episodes : {None},
     random_actions : BOOLEAN, force_reset : BOOLEAN]
    \cup [num_timesteps : {Some(0)}, num_episodes : {None},
          random_actions : {FALSE}, force_reset : BOOLEAN]
    \cup [num_timesteps : {None}, num_episodes : {Some(n) : n \in 1..MaxNumEpisodes},
          random_actions : {FALSE}, force_reset : {FALSE}]
    \cup [num_timesteps : {None}, num_episodes : {Some(1)},
          random_actions : {TRUE}, force_reset : {FALSE}]
    \cup [num_timesteps : {None}, num_episodes : {None},
          random_actions : {FALSE}, force_reset : {FALSE}]
    \cup [num_timesteps : {Some(1)}, num_episodes : {Some(1)},
          random_actions : {FALSE}, force_reset : {FALSE}]

BothGiven(args) == args.num_timesteps # None /\ args.num_episodes # None

\* the n of the sample_timesteps(n) that a sample call with `args` runs, if any
TimestepsOf(cfg, args) ==
    IF BothGiven(args) THEN None
    ELSE IF args.num_timesteps # None THEN args.num_timesteps
    ELSE IF args.num_episodes = None /\ cfg.batch_mode = "truncate_episodes"
    THEN Some(rollout_fragment_length)
    ELSE None

\* the k of the sample_episodes(k) that a sample call with `args` runs, if any
EpisodesOf(cfg, args) ==
    IF BothGiven(args) THEN None
    ELSE IF args.num_episodes # None THEN args.num_episodes
    ELSE IF args.num_timesteps = None /\ cfg.batch_mode # "truncate_episodes"
    THEN Some(1)
    ELSE None

\* the environment steps a call takes when nothing stops it: n, or k episodes
\* of ep_len steps
StepsAsked(cfg, args) ==
    IF TimestepsOf(cfg, args) # None THEN TimestepsOf(cfg, args).v
    ELSE IF EpisodesOf(cfg, args) # None THEN EpisodesOf(cfg, args).v * cfg.ep_len
    ELSE 0

Sample ==
    \E args \in SampleArgs, F0 \in {Frame} :
        \* a module-driven call on a runner with a module takes all the steps
        \* it asks for: past the cap, it need not be run to be ruled out
        /\ ~(/\ metrics.num_env_steps_sampled_lifetime + StepsAsked(config, args) > MaxEnvSteps
             /\ module # None
             /\ ~args.random_actions)
        /\ \E F \in {SampleOp(F0, args.num_timesteps, args.num_episodes,
                              args.random_actions, args.force_reset)} :
            /\ F.metrics.num_env_steps_sampled_lifetime <= MaxEnvSteps
            /\ \A id \in DOMAIN F.ongoing_episodes_for_metrics :
                   Len(F.ongoing_episodes_for_metrics[id]) <= MaxChunks
            /\ Commit(F, {})
            /\ last' = [op |-> "sample", args |-> args,
                        error |-> F.error, ret |-> F.ret, events |-> F.events]
            /\ UNCHANGED << config, module, weights_seq_no, connectors >>

\* the arguments of the calls during which env.step raises: the count asked
\* for is one the call does not reach, so its value does not matter
FailingArgs ==
    [num_timesteps : {Some(MaxFailAfter + 1)}, num_episodes : {None},
     random_actions : BOOLEAN, force_reset : BOOLEAN]
    \cup [num_timesteps : {None}, num_episodes : {Some(MaxFailAfter + 1)},
          random_actions : {FALSE}, force_reset : {FALSE}]

\* a sample call during which env.step raises after k successful steps
SampleFailing ==
    \E args \in FailingArgs, k \in 0..MaxFailAfter :
        \E F0 \in {[Frame EXCEPT !.env_fails_in = Some(k)]} :
        \E F \in {SampleOp(F0, args.num_timesteps, args.num_episodes,
                            args.random_actions, args.force_reset)} :
            /\ F.error = "EnvError"
            /\ F.metrics.num_env_steps_sampled_lifetime <= MaxEnvSteps
            /\ \A id \in DOMAIN F.ongoing_episodes_for_metrics :
                   Len(F.ongoing_episodes_for_metrics[id]) <= MaxChunks
            /\ Commit(F, {})
            /\ last' = [op |-> "sample", args |-> args,
                        error |-> F.error, ret |-> F.ret, events |-> F.events]
            /\ UNCHANGED << config, module, weights_seq_no, connectors >>

\* how a call the runner guards with try/except can end: it returns, or it
\* raises an exception that carries arguments (a message), or one that
\* carries none, such as `raise RuntimeError()` or a failed bare `assert`
Outcomes == {"returns", "raises_with_args", "raises_without_args"}

\* make_env(): close the old environment, make the new one, check it, set
\* the flag, notify.  Both except-blocks format `e.args[0]` into the log
\* message: for an exception without arguments that is an IndexError, raised
\* inside the handler, which leaves make_env.
MakeEnvOp(F, close, check) ==
    IF close = "raises_without_args"
    THEN [F EXCEPT !.error = "IndexError",
                   !.events = << [name |-> "env_close"] >>]
    ELSE
      LET F1 == [F EXCEPT
                   !.events = << [name |-> "env_close"] >>
                              \o (IF close = "raises_with_args"
                                  THEN << [name |-> "logger_warning"] >> ELSE << >>)
                              \o << [name |-> "gym_make"] >>,
                   !.env = [t |-> 0, made |-> F.env.made + 1, reset |-> FALSE]]
      IN  IF check = "raises_without_args"
          THEN [F1 EXCEPT !.error = "IndexError"]
          ELSE [F1 EXCEPT
                  !.events = @ \o (IF check = "raises_with_args"
                                   THEN << [name |-> "logger_exception"] >> ELSE << >>)
                               \o << [name |-> "on_environment_created"] >>,
                  !.needs_initial_reset = TRUE]

MakeEnv ==
    \E close \in Outcomes, check \in Outcomes :
        \E F0 \in {Frame} : \E F \in {MakeEnvOp(F0, close, check)} :
            /\ env.made < MaxEnvsMade
            /\ Commit(F, {})
            /\ last' = [op |-> "make_env", args |-> [close |-> close, check |-> check],
                        error |-> F.error, ret |-> F.ret, events |-> F.events]
            /\ UNCHANGED << config, module, weights_seq_no, connectors >>

GetMetrics ==
    \E F0 \in {Frame} : \E F \in {GetMetricsOp(F0)} :
        /\ Commit(F, IF F.error = "none" THEN Ids(F.ret.logged) ELSE {})
        /\ last' = [op |-> "get_metrics", args |-> EmptyDict,
                    error |-> F.error, ret |-> F.ret, events |-> F.events]
        /\ UNCHANGED << config, module, weights_seq_no, connectors >>

CommitSync(S, op, args) ==
    /\ S.metrics.num_env_steps_sampled_lifetime <= MaxEnvSteps
    /\ module' = S.module
    /\ weights_seq_no' = S.weights_seq_no
    /\ connectors' = S.connectors
    /\ metrics' = S.metrics
    /\ last' = [op |-> op, args |-> args, error |-> S.error,
                ret |-> << >>, events |-> S.events]
    /\ UNCHANGED << config, env, episode, needs_initial_reset, cached_to_module,
                    done_episodes_for_metrics, ongoing_episodes_for_metrics,
                    whole, done_since_pull, running >>

StateKeys ==
    {"rl_module", "weights_seq_no", "num_env_steps_sampled_lifetime",
     "env_to_module_connector", "module_to_env_connector"}

\* the states a caller can pass to set_state
States ==
    { [k \in keys |->
         CASE k = "rl_module" -> w
           [] k = "weights_seq_no" -> seq_no
           [] k = "num_env_steps_sampled_lifetime" -> 1
           [] OTHER -> c]
      : keys \in SUBSET StateKeys, w \in Weights, seq_no \in 0..MaxSeqNo,
        c \in ConnectorStates }

SetState ==
    \E state \in States, S0 \in {SyncState} :
        \E S \in {SetStateOp(S0, state)} : CommitSync(S, "set_state", state)

SetWeights ==
    \E w \in Weights, seq_no \in 0..MaxSeqNo, S0 \in {SyncState} :
        \E S \in {SetWeightsOp(S0, w, seq_no)} :
            CommitSync(S, "set_weights",
                       [k \in {"rl_module", "weights_seq_no"} |->
                           IF k = "rl_module" THEN w ELSE seq_no])

\* sampling and metrics collection
Next == Sample \/ GetMetrics

Spec == Init /\ [][Next]_vars

\* state synchronisation.  set_state and set_weights read and write only the
\* module, the version counter, the connector states and the lifetime counter,
\* none of which sample or get_metrics writes, so they are explored on their own.
NextSync == SetState \/ SetWeights

SpecSync == Init /\ [][NextSync]_vars

\* sampling against an environment whose step may raise.  get_metrics does
\* not touch the environment, the in-flight episode or the lifetime counters
\* and is left to Spec.
NextFail == Sample \/ SampleFailing

SpecFail == Init /\ [][NextFail]_vars

\* sample from its first statement to the loop of the driver it runs
SampleHead(F, args) ==
    IF BothGiven(args) THEN [F EXCEPT !.error = "AssertionError"]
    ELSE IF TimestepsOf(F.config, args) # None
    THEN IF args.force_reset \/ F.needs_initial_reset
         THEN InitialResetTimesteps(F) ELSE F
    ELSE InitialResetEpisodes(F)

\* the condition of the driver's while loop
LoopCondition(F, args) ==
    IF TimestepsOf(F.config, args) # None
    THEN F.ts < TimestepsOf(F.config, args).v
    ELSE F.eps < EpisodesOf(F.config, args).v

\* one iteration of the driver's loop
SampleIteration(F, args) ==
    IF TimestepsOf(F.config, args) # None
    THEN IterationTimesteps(F, args.random_actions)
    ELSE IterationEpisodes(F, EpisodesOf(F.config, args).v, args.random_actions)

\* from the end of the loop to the return of sample
SampleTail(F, args) ==
    IF TimestepsOf(F.config, args) # None
    THEN OnSampleEnd(AfterLoopTimesteps(F))
    ELSE OnSampleEnd([F EXCEPT
                        !.done_episodes_for_metrics = @ \o F.done_episodes_to_return,
                        !.ret = F.done_episodes_to_return])

\* a sample call begins: it runs up to the loop of its driver.  The call is
\* one whose steps and chunk fit the caps, so that no cap stops it half-way.
SampleBegins ==
    \E args \in SampleArgs, F0 \in {Frame} :
        /\ running = None
        /\ metrics.num_env_steps_sampled_lifetime + StepsAsked(config, args) <= MaxEnvSteps
        /\ \A id \in DOMAIN ongoing_episodes_for_metrics :
               Len(ongoing_episodes_for_metrics[id]) < MaxChunks
        /\ running' = [frame |-> SampleHead(F0, args), args |-> args, iterations |-> 0]
        /\ UNCHANGED << config, env, module, weights_seq_no, connectors, episode,
                        needs_initial_reset, cached_to_module, done_episodes_for_metrics,
                        ongoing_episodes_for_metrics, metrics, whole,
                        done_since_pull, last >>

\* the running call goes through its loop once
SampleIterates ==
    /\ running # None
    /\ running.frame.error = "none"
    /\ LoopCondition(running.frame, running.args)
    /\ running' = [running EXCEPT
                      !.frame = SampleIteration(running.frame, running.args),
                      !.iterations = @ + 1]
    /\ UNCHANGED << config, env, module, weights_seq_no, connectors, episode,
                    needs_initial_reset, cached_to_module, done_episodes_for_metrics,
                    ongoing_episodes_for_metrics, metrics, whole,
                    done_since_pull, last >>

\* the running call leaves its loop, or is left by an exception, and ends
SampleEnds ==
    /\ running # None
    /\ ~(running.frame.error = "none" /\ LoopCondition(running.frame, running.args))
    /\ \E F \in {IF running.frame.error # "none" THEN running.frame
                  ELSE SampleTail(running.frame, running.args)} :
           /\ Commit(F, {})
           /\ last' = [op |-> "sample", args |-> running.args,
                       error |-> F.error, ret |-> F.ret, events |-> F.events]
    /\ UNCHANGED << config, module, weights_seq_no, connectors >>

\* sampling, the loops followed iteration by iteration
NextLoop == SampleBegins \/ SampleIterates \/ SampleEnds

\* a call that has begun goes on: the runner is single-threaded and nothing
\* preempts the loop
SpecLoop == Init /\ [][NextLoop]_vars /\ WF_vars(SampleIterates) /\ WF_vars(SampleEnds)

\* sampling on a runner whose environment is re-created between calls
NextEnv == Sample \/ MakeEnv

SpecEnv == Init /\ [][NextEnv]_vars

---------------------------------------------------------------------------
(* What the calls are required to do. *)

\* the last call was a sample_timesteps that returned
ReturnedTimesteps ==
    /\ last.op = "sample"
    /\ last.error = "none"
    /\ TimestepsOf(config, last.args) # None

CountEvents(events, name) ==
    Cardinality({i \in 1..Len(events) : events[i].name = name})

\* the steps held by a list of records
SumLen(records) ==
    SumOver([i \in 1..Len(records) |-> EpLen(records[i])], 1..Len(records))

\* C1: a sample_timesteps(n) that returns has stepped the environment exactly
\* n times, and the lengths of the records it returns (each holding as many
\* steps as its length says) sum to n.
C1_ExactlyNSteps ==
    ReturnedTimesteps =>
        LET n == TimestepsOf(config, last.args).v
        IN  /\ CountEvents(last.events, "env_step") = n
            /\ SumLen(last.ret) = n
            /\ \A i \in 1..Len(last.ret) : Len(last.ret[i].steps) = EpLen(last.ret[i])

\* a sample_timesteps(2) during which an episode ended: a done record, then
\* the chunk cut from its successor
C1_Witness ==
    /\ ReturnedTimesteps
    /\ TimestepsOf(config, last.args).v = 2
    /\ Len(last.ret) = 2
    /\ last.ret[1].is_done
    /\ ~last.ret[2].is_done

\* C2: sample_episodes(k) returns exactly k records, all done, with random
\* actions as well as with a module.
C2_EpisodesReturnsK ==
    (/\ last.op = "sample"
     /\ EpisodesOf(config, last.args) # None
     /\ (last.args.random_actions \/ module # None))
    => /\ last.error = "none"
       /\ Len(last.ret) = EpisodesOf(config, last.args).v
       /\ \A i \in 1..Len(last.ret) : last.ret[i].is_done

\* the frame of the next call on the runner that the call of frame F leaves
NextCall(F) ==
    [F EXCEPT !.local_episode = None, !.done_episodes_to_return = << >>,
              !.ts = 0, !.eps = 0, !.to_env = EmptyDict,
              !.error = "none", !.events = << >>, !.ret = << >>]

\* the content of a list of returned records: per episode, in the order the
\* episodes appear, the steps (observations, actions, rewards) in order
RECURSIVE Trajectory(_, _, _)
Trajectory(records, i, acc) ==
    IF i > Len(records) THEN acc
    ELSE IF Len(acc) > 0 /\ acc[Len(acc)].id_ = records[i].id_
    THEN Trajectory(records, i + 1,
                    [acc EXCEPT ![Len(acc)].steps = @ \o records[i].steps])
    ELSE Trajectory(records, i + 1,
                    Append(acc, [id_ |-> records[i].id_, steps |-> records[i].steps]))

\* C3: from any state of the runner, sample_timesteps(n) followed by
\* sample_timesteps(m) without forced reset returns, taken together, the same
\* steps per episode and in the same order as one sample_timesteps(n + m).
C3_SplitEqualsSingle ==
    \A n \in 0..MaxSplit, m \in 0..MaxSplit, random_actions \in BOOLEAN :
        \A F0 \in {Frame} :
        \A single \in {SampleTimestepsOp(F0, n + m, random_actions, FALSE)} :
        \A first \in {SampleTimestepsOp(F0, n, random_actions, FALSE)} :
        \A second \in {IF first.error # "none" THEN first
                       ELSE SampleTimestepsOp(NextCall(first), m, random_actions, FALSE)} :
            single.error = "none" =>
                /\ second.error = "none"
                /\ Trajectory(first.ret \o second.ret, 1, << >>)
                     = Trajectory(single.ret, 1, << >>)

\* a call without forced reset has returned a chunk that goes on where the
\* previous call cut the episode
C3_Witness ==
    /\ ReturnedTimesteps
    /\ ~last.args.force_reset
    /\ Len(last.ret) > 0
    /\ last.ret[1].env_t_started > 0
    /\ Len(last.ret[1].steps) > 0

\* the last call was a get_metrics that returned
ReturnedMetrics == last.op = "get_metrics" /\ last.error = "none"

\* what get_metrics logs for the episode `id` when all of it is one record
SingleChunkMetrics(id) == OwnMetrics(Finalize(whole[id], TRUE))

\* C4: for a done episode logged from two chunks (one from the registry and
\* the terminal one), length, return, per-agent steps, per-agent returns and
\* per-module returns are those logged for the episode as a single chunk.
C4_TwoChunksEqualOne ==
    ReturnedMetrics =>
        \A i \in 1..Len(last.ret.logged) :
            last.ret.logged[i].num_chunks = 2 =>
                [last.ret.logged[i] EXCEPT !.num_chunks = 1]
                    = SingleChunkMetrics(last.ret.logged[i].id_)

\* C5: the length and the return get_metrics logs for a done episode are the
\* steps and the reward recorded for it between its reset and its done step.
C5_ExactlyOnceAccounting ==
    ReturnedMetrics =>
        \A i \in 1..Len(last.ret.logged) :
            /\ last.ret.logged[i].episode_length = EpLen(whole[last.ret.logged[i].id_])
            /\ last.ret.logged[i].episode_return = GetReturn(whole[last.ret.logged[i].id_])

\* C6: no record returned by sample_timesteps and no chunk in the registry
\* has zero steps.
C6_NoZeroStepChunk ==
    ReturnedTimesteps =>
        /\ \A i \in 1..Len(last.ret) : EpLen(last.ret[i]) > 0
        /\ \A id \in DOMAIN ongoing_episodes_for_metrics :
               \A j \in 1..Len(ongoing_episodes_for_metrics[id]) :
                   EpLen(ongoing_episodes_for_metrics[id][j]) > 0

\* the step is a set_state / set_weights call that carried module weights and
\* returned
AppliedModuleState ==
    /\ last'.op \in {"set_state", "set_weights"}
    /\ "rl_module" \in DOMAIN last'.args
    /\ last'.error = "none"

\* C7: a state with module weights replaces the module's weights exactly when
\* its version tag is 0 or absent, or greater than the local version;
\* otherwise the module is left as it is.
C7_VersionGate ==
    [][AppliedModuleState =>
         IF Get0(last'.args, "weights_seq_no") = 0
            \/ Get0(last'.args, "weights_seq_no") > weights_seq_no
         THEN /\ module'.weights = last'.args["rl_module"]
              /\ last'.events = << "module.set_state" >>
         ELSE /\ module' = module
              /\ last'.events = << >>]_vars

\* a state with a nonzero tag was passed and the module kept other weights
C7_Witness ==
    /\ last.op = "set_state"
    /\ last.error = "none"
    /\ "rl_module" \in DOMAIN last.args
    /\ Get0(last.args, "weights_seq_no") > 0
    /\ last.events = << >>
    /\ module.weights # last.args["rl_module"]

\* C8: the local weights version never decreases.
C8_VersionMonotonic == [][weights_seq_no' >= weights_seq_no]_vars

\* C9: sample with both num_timesteps and num_episodes fails with no
\* environment call and no notification made, and leaves the environment, the
\* in-flight episode, the flag, the cache, the registry, the queue and the
\* counters as they were.
C9_BothGivenFailsFirst ==
    [][(last'.op = "sample" /\ BothGiven(last'.args)) =>
         /\ last'.error = "AssertionError"
         /\ last'.events = << >>
         /\ last'.ret = << >>
         /\ UNCHANGED << env, episode, needs_initial_reset, cached_to_module,
                         ongoing_episodes_for_metrics, done_episodes_for_metrics,
                         metrics >>]_vars

\* the failing call was made on a runner with an episode in flight, a cache
\* and a queued episode
C9_Witness ==
    /\ last.op = "sample"
    /\ BothGiven(last.args)
    /\ last.error = "AssertionError"
    /\ episode # None
    /\ cached_to_module # None
    /\ Len(done_episodes_for_metrics) > 0

SampledTimesteps == last.op = "sample" /\ TimestepsOf(config, last.args) # None

\* the names of the events of a call, in order
Names(events) == [i \in 1..Len(events) |-> events[i].name]

\* C11: whenever an episode becomes done in a sample call, with or without a
\* module and with module-driven or random actions, its end notification is
\* directly preceded by one env-to-module pass over the done episode, which
\* directly follows the recording of its last step, and is directly followed
\* by its finalization.
C11_TerminalPassBeforeEnd ==
    last.op = "sample" =>
        \A i \in 1..Len(last.events) :
            last.events[i].name = "on_episode_end" =>
                /\ i > 2
                /\ i < Len(last.events)
                /\ last.events[i - 2].name = "on_episode_step"
                /\ last.events[i - 2].id_ = last.events[i].id_
                /\ last.events[i - 1].name = "env_to_module"
                /\ last.events[i - 1].id_ = last.events[i].id_
                /\ last.events[i - 1].is_done
                /\ last.events[i + 1].name = "finalize"
                /\ last.events[i + 1].id_ = last.events[i].id_

\* seq is the beginning of seq2
IsPrefix(seq, seq2) ==
    /\ Len(seq) <= Len(seq2)
    /\ \A i \in 1..Len(seq) : seq[i] = seq2[i]

\* the step is a sample_timesteps call that runs the reset block
ResetsFirst ==
    /\ TimestepsOf(config, last'.args) # None
    /\ (last'.args.force_reset \/ needs_initial_reset)

\* C12: a sample call steps only a record that is neither done nor finalized
\* nor queued; the records already in the queue and in the registry are left
\* as they are: the call only appends to them, unless it is a
\* sample_timesteps call that resets first, after which the registry holds
\* only chunks this call returns; the call returns finalized records, and the
\* record in flight after a sample_timesteps call that returned is none of
\* them: it is an unfinalized, not-done record without steps of its own.
C12_NoStepAfterDoneOrReturn ==
    [][last'.op = "sample" =>
         /\ \A i \in 1..Len(last'.events) :
                last'.events[i].name = "env_step" =>
                    /\ ~last'.events[i].is_done
                    /\ ~last'.events[i].is_finalized
                    /\ last'.events[i].id_ \notin last'.events[i].queued
         /\ IsPrefix(done_episodes_for_metrics, done_episodes_for_metrics')
         /\ IF ResetsFirst
            THEN \A id \in DOMAIN ongoing_episodes_for_metrics' :
                     \A j \in 1..Len(ongoing_episodes_for_metrics'[id]) :
                         \E i \in 1..Len(last'.ret) :
                             last'.ret[i] = ongoing_episodes_for_metrics'[id][j]
            ELSE \A id \in DOMAIN ongoing_episodes_for_metrics :
                     /\ id \in DOMAIN ongoing_episodes_for_metrics'
                     /\ IsPrefix(ongoing_episodes_for_metrics[id],
                                 ongoing_episodes_for_metrics'[id])
         /\ \A i \in 1..Len(last'.ret) : last'.ret[i].is_finalized
         /\ (last'.error = "none" /\ TimestepsOf(config, last'.args) # None) =>
                /\ ~episode'.is_done
                /\ ~episode'.is_finalized
                /\ episode'.steps = << >>
                /\ \A i \in 1..Len(last'.ret) : last'.ret[i] # episode']_vars

\* a call in which an episode was finalized and the stepping went on, on
\* another record
C12_Witness ==
    /\ ReturnedTimesteps
    /\ \E i \in 1..Len(last.events) : \E j \in (i + 1)..Len(last.events) :
           /\ last.events[i].name = "finalize"
           /\ last.events[j].name = "env_step"
           /\ last.events[j].id_ # last.events[i].id_

\* the events a call begins with when it creates an episode and resets the
\* environment
BeginsWithReset(events) ==
    /\ Len(events) >= 3
    /\ SubSeq(Names(events), 1, 3)
         = << "on_episode_created", "env_reset", "on_episode_start" >>

\* C13: a sample_episodes call creates an episode and resets the environment
\* before anything else, every episode it returns starts at step 0 and holds
\* all its steps, and it leaves the needs-reset flag set; the flag stays set
\* until a sample_timesteps call; a sample_timesteps call that follows a
\* sample_episodes call, or finds the flag set, begins with a new episode and
\* a reset, also without force_reset.
C13_EpisodesAlwaysReset ==
    [][/\ (last'.op = "sample" /\ EpisodesOf(config, last'.args) # None) =>
              /\ BeginsWithReset(last'.events)
              /\ \A i \in 1..Len(last'.ret) :
                     /\ last'.ret[i].env_t_started = 0
                     /\ Len(last'.ret[i].steps) = last'.ret[i].env_t
              /\ needs_initial_reset'
       /\ (needs_initial_reset /\ ~needs_initial_reset') =>
              (last'.op = "sample" /\ TimestepsOf(config, last'.args) # None)
       /\ (/\ last'.op = "sample"
           /\ TimestepsOf(config, last'.args) # None
           /\ \/ needs_initial_reset
              \/ (last.op = "sample" /\ EpisodesOf(config, last.args) # None)) =>
              /\ BeginsWithReset(last'.events)
              /\ episode # None => last'.events[1].id_ # episode.id_]_vars

\* a sample_timesteps call without force_reset, on a runner that had sampled
\* before, began with a reset
C13_Witness ==
    /\ ReturnedTimesteps
    /\ ~last.args.force_reset
    /\ BeginsWithReset(last.events)
    /\ metrics.num_env_steps_sampled_lifetime > CountEvents(last.events, "env_step")

StepRaised == last.op = "sample" /\ last.error = "EnvError"

C16_OnePerEnvStep ==
    [][/\ last'.op = "sample" =>
              /\ metrics'.num_env_steps_sampled_lifetime
                   = metrics.num_env_steps_sampled_lifetime
                     + CountEvents(last'.events, "env_step")
              /\ metrics'.num_env_steps_sampled
                   = metrics.num_env_steps_sampled
                     + CountEvents(last'.events, "env_step")
       /\ last'.op = "get_metrics" =>
              metrics'.num_env_steps_sampled_lifetime
                = metrics.num_env_steps_sampled_lifetime]_vars

\* two environment steps in which both agents observed were counted as two
C16_Witness ==
    /\ ReturnedTimesteps
    /\ config.pattern = "all"
    /\ CountEvents(last.events, "env_step") = 2
    /\ metrics.num_env_steps_sampled = 2
    /\ metrics.num_agent_steps_sampled["a1"] + metrics.num_agent_steps_sampled["a2"] = 4

\* the steps the records hold in the sub-record of agent a
AgentLen(records, a) ==
    SumOver([i \in 1..Len(records) |->
                IF a \in DOMAIN records[i].agent_episodes
                THEN records[i].agent_episodes[a].len ELSE 0],
            1..Len(records))

C18_LengthAtLeastAgentSteps ==
    ReturnedMetrics =>
        \A i \in 1..Len(last.ret.logged) :
            \A a \in DOMAIN last.ret.logged[i].agent_steps :
                last.ret.logged[i].episode_length >= last.ret.logged[i].agent_steps[a]

\* an episode logged from two chunks in which an agent took part in every step
C18_Witness ==
    /\ ReturnedMetrics
    /\ \E i \in 1..Len(last.ret.logged) :
           /\ last.ret.logged[i].num_chunks = 2
           /\ \E a \in DOMAIN last.ret.logged[i].agent_steps :
                  last.ret.logged[i].agent_steps[a] = 2

\* C19: a sample call with random actions, in either driver, steps the
\* environment, each time with a dict of actions for exactly the agents that
\* are to act in the in-flight episode, and the actions of every step of the
\* records it returns are those of exactly the agents that were to act.
C19_RandomActionsForEligibleOnly ==
    (last.op = "sample" /\ ~BothGiven(last.args) /\ last.args.random_actions) =>
        /\ CountEvents(last.events, "env_step") >= 1
        /\ \A i \in 1..Len(last.events) :
               last.events[i].name = "env_step" =>
                   /\ last.events[i].actions_for_env.kind = "dict"
                   /\ DOMAIN last.events[i].actions_for_env.map
                        = last.events[i].agents_to_act
        /\ \A i \in 1..Len(last.ret) : \A j \in 1..Len(last.ret[i].steps) :
               \E k \in 1..Len(last.events) :
                   /\ last.events[k].name = "env_step"
                   /\ last.events[k].id_ = last.ret[i].id_
                   /\ last.events[k].env_t + 1 = last.ret[i].steps[j].t
                   /\ last.events[k].agents_to_act = DOMAIN last.ret[i].steps[j].actions

\* C20: in a sample_timesteps call, the runner holds no cached env-to-module
\* result when the notification that follows an environment reset fires.
C20_CacheEmptyAfterReset ==
    SampledTimesteps =>
        \A i \in 1..Len(last.events) :
            last.events[i].name = "env_reset" =>
                /\ i < Len(last.events)
                /\ ~last.events[i + 1].cached

\* C21: whenever the on_episode_start notification fires in a sample call, in
\* either driver, the episode it fires for already holds the observations of
\* its environment reset.
C21_StartAfterSeeding ==
    last.op = "sample" =>
        \A i \in 1..Len(last.events) :
            last.events[i].name = "on_episode_start" => last.events[i].seeded

\* C23: at every environment reset of a sample_timesteps call, every episode
\* that ended earlier in the call has been finalized and is in the
\* Done-Episode Queue.
C23_QueuedBeforeReset ==
    SampledTimesteps =>
        \A i \in 1..Len(last.events) : \A j \in 1..(i - 1) :
            (/\ last.events[i].name = "env_reset"
             /\ last.events[j].name = "on_episode_end") =>
                /\ \E k \in (j + 1)..(i - 1) :
                       /\ last.events[k].name = "finalize"
                       /\ last.events[k].id_ = last.events[j].id_
                /\ last.events[j].id_ \in last.events[i].queued

\* the positions of the env-to-module passes among the events of a call
PassesOf(events) == {i \in 1..Len(events) : events[i].name = "env_to_module"}

\* the positions of the environment steps among the events of a call
StepsOf(events) == {i \in 1..Len(events) : events[i].name = "env_step"}

\* C24: on a runner with a module, a sample_timesteps call that returns ends
\* with an env-to-module pass on the in-flight episode and keeps its result;
\* a module-driven sample_timesteps call that finds a kept result and does not
\* reset takes its first action from it, with no pass of its own; and no
\* (episode, step) is passed through env-to-module twice, neither within a
\* call nor by a call that goes on with the episode of the previous one.
C24_OnePassPerStep ==
    [][(/\ last'.op = "sample"
        /\ TimestepsOf(config, last'.args) # None
        /\ module # None) =>
          /\ last'.error = "none" =>
                /\ cached_to_module' # None
                /\ cached_to_module'.id_ = episode'.id_
                /\ cached_to_module'.env_t = episode'.env_t
                /\ \E i \in PassesOf(last'.events) :
                       /\ last'.events[i].id_ = episode'.id_
                       /\ last'.events[i].env_t = episode'.env_t
                       /\ \A j \in StepsOf(last'.events) : j < i
          /\ (/\ cached_to_module # None
              /\ ~ResetsFirst
              /\ ~last'.args.random_actions) =>
                \A i \in StepsOf(last'.events) :
                    (\A j \in StepsOf(last'.events) : i <= j) =>
                        /\ i > 1
                        /\ last'.events[i - 1].name = "use_cached_to_module"
                        /\ \A j \in PassesOf(last'.events) : i < j
          /\ \A i \in PassesOf(last'.events) : \A j \in PassesOf(last'.events) :
                (/\ last'.events[i].id_ = last'.events[j].id_
                 /\ last'.events[i].env_t = last'.events[j].env_t) => i = j
          /\ (cached_to_module # None /\ ~ResetsFirst) =>
                \A i \in PassesOf(last'.events) :
                    ~(/\ last'.events[i].id_ = cached_to_module.id_
                      /\ last'.events[i].env_t = cached_to_module.env_t)]_vars

\* the lifecycle notifications of an episode
Lifecycle ==
    {"on_episode_created", "on_episode_start", "on_episode_step", "on_episode_end"}

\* the positions of the events with this name among the events of a call
Named(events, name) == {i \in 1..Len(events) : events[i].name = name}

\* the positions of the lifecycle notifications of episode `id`
NotifiedOf(events, id) ==
    {i \in 1..Len(events) : events[i].name \in Lifecycle /\ events[i].id_ = id}

\* C22: in every sample call, created is the first notification of its
\* episode and fires for a new episode, never for the one the call found in
\* flight and goes on with; start is the notification that follows created, and fires only
\* then; created, start and end each fire at most once per episode; a step
\* notification fires for an episode that was started, in this call or (the
\* continuation of a cut) in an earlier one, once after every environment
\* step, and the steps of the returned records are those notified in the
\* call or recorded before it; end fires for a done
\* episode only and is its last notification, and the episode left in flight
\* is not one that ended.
C22_LifecycleOrder ==
    [][last'.op = "sample" =>
         LET ev == last'.events
         IN  /\ \A i \in Named(ev, "on_episode_created") :
                    /\ \A j \in NotifiedOf(ev, ev[i].id_) : i <= j
                    /\ (episode # None /\ ~ResetsFirst) => ev[i].id_ # episode.id_
                    /\ \E j \in Named(ev, "on_episode_start") :
                           /\ ev[j].id_ = ev[i].id_
                           /\ \A k \in NotifiedOf(ev, ev[i].id_) : k = i \/ j <= k
             /\ \A j \in Named(ev, "on_episode_start") :
                    \E i \in Named(ev, "on_episode_created") :
                        /\ ev[i].id_ = ev[j].id_
                        /\ \A k \in NotifiedOf(ev, ev[j].id_) : k = i \/ j <= k
             /\ \A name \in {"on_episode_created", "on_episode_start", "on_episode_end"} :
                    \A i \in Named(ev, name) : \A j \in Named(ev, name) :
                        ev[i].id_ = ev[j].id_ => i = j
             /\ \A i \in Named(ev, "on_episode_step") :
                    /\ \/ \E j \in Named(ev, "on_episode_start") :
                              j < i /\ ev[j].id_ = ev[i].id_
                       \/ /\ episode # None
                          /\ episode.id_ = ev[i].id_
                          /\ episode.seeded
                          /\ ~episode.is_done
                    /\ i > 1
                    /\ ev[i - 1].name = "env_step"
                    /\ ev[i - 1].id_ = ev[i].id_
                    /\ ev[i].env_t = ev[i - 1].env_t + 1
             /\ \A i \in Named(ev, "env_step") :
                    /\ i < Len(ev)
                    /\ ev[i + 1].name = "on_episode_step"
             /\ \A i \in Named(ev, "on_episode_step") :
                    /\ \A j \in Named(ev, "on_episode_step") :
                           (ev[i].id_ = ev[j].id_ /\ ev[i].env_t = ev[j].env_t) => i = j
                    /\ last'.error = "none" =>
                           \E r \in 1..Len(last'.ret) :
                               /\ last'.ret[r].id_ = ev[i].id_
                               /\ \E j \in 1..Len(last'.ret[r].steps) :
                                      last'.ret[r].steps[j].t = ev[i].env_t
             /\ \A r \in 1..Len(last'.ret) : \A j \in 1..Len(last'.ret[r].steps) :
                    \/ \E i \in Named(ev, "on_episode_step") :
                           /\ ev[i].id_ = last'.ret[r].id_
                           /\ ev[i].env_t = last'.ret[r].steps[j].t
                    \/ /\ episode # None
                       /\ ~ResetsFirst
                       /\ episode.id_ = last'.ret[r].id_
                       /\ last'.ret[r].steps[j].t <= episode.env_t
             /\ \A i \in Named(ev, "on_episode_end") :
                    /\ ev[i].is_done
                    /\ \A j \in NotifiedOf(ev, ev[i].id_) : j <= i
                    /\ TimestepsOf(config, last'.args) # None => ev[i].id_ # episode'.id_
             /\ episode' # None => ~episode'.is_done]_vars

\* a call went on with the episode the previous call had cut, took it to its
\* end and started another one
C22_Witness ==
    /\ ReturnedTimesteps
    /\ ~BeginsWithReset(last.events)
    /\ \E i \in Named(last.events, "on_episode_end") :
           /\ last.events[i].id_ = last.ret[1].id_
           /\ last.ret[1].env_t_started > 0
           /\ \E j \in Named(last.events, "on_episode_start") : i < j

\* the chunks the registry holds for an episode id
ChunksOf(registry, id) == IF id \in DOMAIN registry THEN registry[id] ELSE << >>

\* C25: a sample call adds to the registry exactly the not-done records it
\* returns, each at the end of the entry of its episode id (on the registry
\* emptied by the reset block, if the call runs it), and nothing else;
\* get_metrics deletes exactly the entries of the ids in the Done-Episode
\* Queue and leaves the others as they are, so that no episode it logs has an
\* entry afterwards.
C25_RegistryLifecycle ==
    [][/\ last'.op = "sample" =>
              LET base == IF ResetsFirst THEN EmptyDict ELSE ongoing_episodes_for_metrics
                  added(id) == SelectSeq(last'.ret, LAMBDA r : ~r.is_done /\ r.id_ = id)
              IN  /\ DOMAIN ongoing_episodes_for_metrics'
                       = DOMAIN base
                         \cup {last'.ret[i].id_ : i \in {j \in 1..Len(last'.ret) :
                                                            ~last'.ret[j].is_done}}
                  /\ \A id \in DOMAIN ongoing_episodes_for_metrics' :
                         ongoing_episodes_for_metrics'[id] = ChunksOf(base, id) \o added(id)
       /\ last'.op = "get_metrics" =>
              /\ DOMAIN ongoing_episodes_for_metrics'
                   = DOMAIN ongoing_episodes_for_metrics \ Ids(done_episodes_for_metrics)
              /\ \A id \in DOMAIN ongoing_episodes_for_metrics' :
                     ongoing_episodes_for_metrics'[id] = ongoing_episodes_for_metrics[id]
              /\ last'.error = "none" =>
                     \A i \in 1..Len(last'.ret.logged) :
                         last'.ret.logged[i].id_ \notin DOMAIN ongoing_episodes_for_metrics']_vars

\* get_metrics logged an episode from two chunks, deleted its entry and left
\* the entry of the episode in flight
C25_Witness ==
    /\ ReturnedMetrics
    /\ \E i \in 1..Len(last.ret.logged) : last.ret.logged[i].num_chunks = 2
    /\ episode # None
    /\ episode.id_ \in DOMAIN ongoing_episodes_for_metrics

\* the columns of to_env that are not recorded as extra model outputs
ActionColumns == {"actions", "actions_for_env"}

\* every column a module or a connector of the model emits
Columns == ActionColumns \cup {"action_logp", "action_dist_inputs"}

\* C27: for every step of a returned record, in both drivers, the recorded
\* extra model outputs have a value for agent a under column c exactly when c
\* is not an action column and the first element of column c of to_env has a
\* value for a, and it is that value.
C27_ReshapeKeepsColumns ==
    (last.op = "sample" /\ last.error = "none") =>
        \A i \in 1..Len(last.ret) : \A j \in 1..Len(last.ret[i].steps) :
            \A k \in Named(last.events, "env_step") :
                (/\ last.events[k].id_ = last.ret[i].id_
                 /\ last.events[k].env_t + 1 = last.ret[i].steps[j].t) =>
                    LET to_env == last.events[k].to_env
                        emo == last.ret[i].steps[j].extra_model_outputs
                    IN  \A a \in AgentIds : \A c \in Columns :
                            /\ (a \in DOMAIN emo /\ c \in DOMAIN emo[a])
                                 <=> (/\ c \in (DOMAIN to_env) \ ActionColumns
                                      /\ a \in DOMAIN to_env[c].items[1].map)
                            /\ (a \in DOMAIN emo /\ c \in DOMAIN emo[a]) =>
                                   emo[a][c] = to_env[c].items[1].map[a]

\* a sample_episodes call returned a step with two columns for each of two
\* agents
C27_Witness ==
    /\ last.op = "sample"
    /\ last.error = "none"
    /\ EpisodesOf(config, last.args) # None
    /\ \E i \in 1..Len(last.ret) : \E j \in 1..Len(last.ret[i].steps) :
           /\ DOMAIN last.ret[i].steps[j].extra_model_outputs = AgentIds
           /\ \A a \in AgentIds :
                  DOMAIN last.ret[i].steps[j].extra_model_outputs[a]
                    = {"action_logp", "action_dist_inputs"}

\* the ids of the episodes that ended in a call, in the order they ended
EndedIn(events) ==
    LET ended == SelectSeq(events, LAMBDA e : e.name = "on_episode_end")
    IN  [i \in 1..Len(ended) |-> ended[i].id_]

\* C29: the list a sample_timesteps call returns holds the episodes that
\* ended in the call, in the order they ended, then at most one not-done
\* record, last; the done records are the ones the call has appended to the
\* Done-Episode Queue; the not-done record is the last chunk of the registry
\* entry of its id, which is the id of the episode in flight, and ends where
\* the in-flight record starts.
C29_DoneThenChunk ==
    ReturnedTimesteps =>
        LET dones == SelectSeq(last.ret, LAMBDA r : r.is_done)
            queue == done_episodes_for_metrics
        IN  /\ \A i \in 1..(Len(last.ret) - 1) : last.ret[i].is_done
            /\ [i \in 1..Len(dones) |-> dones[i].id_] = EndedIn(last.events)
            /\ Len(dones) <= Len(queue)
            /\ SubSeq(queue, Len(queue) - Len(dones) + 1, Len(queue)) = dones
            /\ \A i \in 1..Len(last.ret) :
                   ~last.ret[i].is_done =>
                       /\ last.ret[i].id_ = episode.id_
                       /\ last.ret[i].env_t = episode.env_t_started
                       /\ last.ret[i].id_ \in DOMAIN ongoing_episodes_for_metrics
                       /\ ongoing_episodes_for_metrics[last.ret[i].id_]
                              [Len(ongoing_episodes_for_metrics[last.ret[i].id_])]
                            = last.ret[i]

\* a call returned an episode that ended in it and, after it, the chunk of
\* the next episode; the first is the last of the queue, the second is in
\* the registry
C29_Witness ==
    /\ ReturnedTimesteps
    /\ Len(last.ret) = 2
    /\ last.ret[1].is_done
    /\ ~last.ret[2].is_done
    /\ done_episodes_for_metrics[Len(done_episodes_for_metrics)] = last.ret[1]
    /\ last.ret[2].id_ \in DOMAIN ongoing_episodes_for_metrics

C26_MakeEnvResets ==
    [][/\ last'.op = "make_env" =>
              /\ last'.error = "none"
              /\ env'.made = env.made + 1
              /\ ~env'.reset
              /\ needs_initial_reset'
       /\ (/\ last'.op = "sample"
           /\ TimestepsOf(config, last'.args) # None
           /\ last.op = "make_env") =>
              BeginsWithReset(last'.events)]_vars

\* C28: a sample call that has begun ends.  While it runs, it has gone
\* through its loop at most as often as it was asked to step (n times for
\* sample_timesteps(n), k episodes of the environment's length for
\* sample_episodes(k)); the loop counter of sample_timesteps(n) is the number
\* of iterations made, and the loop is left after exactly n of them.
C28_SampleTerminates ==
    /\ [](running # None =>
            /\ running.iterations <= StepsAsked(config, running.args)
            /\ (/\ running.frame.error = "none"
                /\ TimestepsOf(config, running.args) # None) =>
                   /\ running.frame.ts = running.iterations
                   /\ ~LoopCondition(running.frame, running.args) =>
                          running.iterations = TimestepsOf(config, running.args).v)
    /\ (running # None) ~> (running = None)

\* the loop of a sample_timesteps(2) is left after two iterations, in the
\* first of which the episode ended and another one was begun
C28_Witness ==
    /\ running # None
    /\ running.frame.error = "none"
    /\ TimestepsOf(config, running.args) # None
    /\ ~LoopCondition(running.frame, running.args)
    /\ running.iterations = 2
    /\ Len(running.frame.done_episodes_to_return) = 1
    /\ running.frame.episode.env_t = 1

\* C31: whenever a sample call takes its actions from the kept env-to-module
\* result, that result is the one the runner held when the call began, and
\* it was computed from the episode in flight at the step count the episode
\* has when the result is used.
C31_CacheIsCurrent ==
    [][last'.op = "sample" =>
         \A i \in Named(last'.events, "use_cached_to_module") :
             /\ cached_to_module # None
             /\ cached_to_module.id_ = last'.events[i].id_
             /\ cached_to_module.env_t = last'.events[i].env_t]_vars

====
